---- MODULE Spec2Model ----
(***************************************************************************)
(* Model of the alert enrichment pipeline and its result cache             *)
(* (getMatchedAlerts) of tfnsw-service-alerts-priority.                    *)
(*                                                                         *)
(* The repository holds three revisions of the pipeline:                   *)
(*   "index"    src/src/index.js      (severity, tts, informed entities)   *)
(*   "part_000" src/unnamed/part_000  (+ description cleanup, 2 emojis)    *)
(*   "part_001" src/unnamed/part_001  (+ rail flag, 7 emojis, stop tokens) *)
(*                                                                         *)
(* Strings that the code inspects with regular expressions or parses as    *)
(* HTML are sequences of tokens; identifiers are TLA+ strings.  JavaScript *)
(* values whose type matters (severityLevel) are strings tagged with their *)
(* type: "num:2" is the number 2, "str:INFO" the string 'INFO'.            *)
(***************************************************************************)
EXTENDS Integers, Sequences, FiniteSets, TLC

Rev == {"index", "part_000", "part_001"}

(***************************************************************************)
(* Bounds of the model.                                                    *)
(***************************************************************************)
MaxDescLen == 3     \* tokens in a generated description text
MaxSel == 2         \* selectors in a generated informedEntity list
NumReq == 2         \* concurrent requests
MaxTime == 45       \* the clock stops here (seconds)
TickSec == 15       \* seconds per clock step

(***************************************************************************)
(* Text: sequences of tokens.                                              *)
(***************************************************************************)
Ws == {" ", "\n"}
HtmlTags == {"<div>", "</div>", "<li>", "</li>"}
SixDigit2 == {"200060", "201234", "205678"}
DigitToks == SixDigit2 \cup {"1"}
LiftAtToks == {"Lift at", "lift at"}
LiftOutToks == {"not available", "out of service"}
BusStopToks == {"bus stop closure", "Bus stop closures"}
TrackworkToks == {"Trackwork may affect your travel"}
WordToks == DigitToks \cup LiftAtToks \cup LiftOutToks \cup BusStopToks
              \cup TrackworkToks \cup {"w", "undefined"}

RECURSIVE Join(_)
\* the JavaScript string a token sequence stands for
Join(s) == IF s = <<>> THEN "" ELSE Head(s) \o Join(Tail(s))

RECURSIVE TrimStart(_)
TrimStart(s) ==
    IF s # <<>> /\ Head(s) \in Ws THEN TrimStart(Tail(s)) ELSE s

RECURSIVE TrimEnd(_)
TrimEnd(s) ==
    IF s # <<>> /\ s[Len(s)] \in Ws THEN TrimEnd(SubSeq(s, 1, Len(s) - 1)) ELSE s

\* String.prototype.trim
Trim(s) == TrimEnd(TrimStart(s))

Contains(s, toks) == \E i \in 1..Len(s) : s[i] \in toks

RECURSIVE AddAll(_, _)
\* Set.prototype.add of every element of xs, in order (insertion-ordered set)
AddAll(set, xs) ==
    IF xs = <<>> THEN set
    ELSE AddAll(IF \E i \in 1..Len(set) : set[i] = Head(xs)
                THEN set ELSE Append(set, Head(xs)), Tail(xs))

(***************************************************************************)
(* cheerio: load, $("li").each(html('bullet ' + html())), text().          *)
(***************************************************************************)
RECURSIVE LiBullets(_)
\* every li element's content gets the bullet and a space in front.  An li
\* start tag closes the li that is open, so li elements are never nested.
LiBullets(s) ==
    IF s = <<>> THEN <<>>
    ELSE IF Head(s) = "<li>" THEN <<"<li>", "(bullet)", " ">> \o LiBullets(Tail(s))
    ELSE <<Head(s)>> \o LiBullets(Tail(s))

RECURSIVE TextOf(_)
\* $(root).text(): the text nodes in document order, tags dropped, character
\* references decoded
TextOf(s) ==
    IF s = <<>> THEN <<>>
    ELSE IF Head(s) \in HtmlTags THEN TextOf(Tail(s))
    ELSE IF Head(s) = "&lt;li&gt;" THEN <<"<li>">> \o TextOf(Tail(s))
    ELSE <<Head(s)>> \o TextOf(Tail(s))

\* text.replace(/\n\s*\.$/): called without a replacement, so the match is
\* replaced by String(undefined)
ReplaceTrailingDot(s) ==
    IF s = <<>> \/ s[Len(s)] # "." THEN s
    ELSE LET body == SubSeq(s, 1, Len(s) - 1)
             kept == TrimEnd(body)
             block == SubSeq(body, Len(kept) + 1, Len(body))
             nl == {i \in 1..Len(block) : block[i] = "\n"}
         IN  IF nl = {} THEN s
             ELSE LET first == CHOOSE i \in nl : \A j \in nl : i <= j
                  IN  kept \o SubSeq(block, 1, first - 1) \o <<"undefined">>

\* text.match(/<(div|li)>/)
HasBlockMarkup(s) == Contains(s, {"<div>", "<li>"})

(***************************************************************************)
(* Regular expressions of the emoji rules and of the stop heuristic.       *)
(***************************************************************************)
\* /Lift at .* (not available|out of service)/i : "Lift at", a space, any
\* characters but a line break, a space, one of the two endings
MatchLift(s) ==
    \E i \in 1..Len(s) : \E j \in 1..Len(s) :
        /\ s[i] \in LiftAtToks
        /\ s[j] \in LiftOutToks
        /\ i + 3 <= j
        /\ s[i + 1] = " "
        /\ s[j - 1] = " "
        /\ \A k \in (i + 1)..(j - 1) : s[k] # "\n"

\* /bus stop closures?/i
MatchBusStop(s) == Contains(s, BusStopToks)

\* /Trackwork may affect your travel/i
MatchTrackwork(s) == Contains(s, TrackworkToks)

\* the maximal run of word tokens that starts at i is s[i..RunEnd(s, i)]
RECURSIVE RunEnd(_, _)
RunEnd(s, i) ==
    IF i < Len(s) /\ s[i + 1] \in WordToks THEN RunEnd(s, i + 1) ELSE i

RECURSIVE TsnFrom(_, _)
\* descTxt.match(/\b2[0-9]{5,}\b/g) from token i on: a run of word tokens
\* matches when it is all digits and begins with a 6-digit token in "2"
TsnFrom(s, i) ==
    IF i > Len(s) THEN <<>>
    ELSE IF s[i] \notin WordToks THEN TsnFrom(s, i + 1)
    ELSE LET e == RunEnd(s, i)
             run == SubSeq(s, i, e)
         IN  (IF run[1] \in SixDigit2 /\ \A k \in 1..Len(run) : run[k] \in DigitToks
              THEN <<Join(run)>> ELSE <<>>) \o TsnFrom(s, e + 1)

TsnMatches(s) == TsnFrom(s, 1)

(***************************************************************************)
(* Data model.  A translation list that is absent reads as the empty list  *)
(* (lodash.get's default, or the decoder's default for a repeated field);  *)
(* a string field that is absent reads as "" and a trip that is absent as  *)
(* "" (null), all of them falsy.                                           *)
(***************************************************************************)
Tr(text, language) == [text |-> text, language |-> language]

Sel(trip, stopId, routeId, agencyId) ==
    [trip |-> trip, stopId |-> stopId, routeId |-> routeId, agencyId |-> agencyId]

RailAgencies == {"SydneyTrains", "NSWTrains", "SMNW", "SLR", "LR"}

MAINTENANCE == 9
WEATHER == 8
MODIFIED_SERVICE == 6
DETOUR == 4

\* own properties of the SEV_MAPPING object literal
SEV_MAPPING == [p \in {"normal", "low"} |-> IF p = "normal" THEN "str:WARNING" ELSE "str:INFO"]

\* properties every object literal inherits from Object.prototype
ObjectPrototypeKeys ==
    {"constructor", "toString", "valueOf", "hasOwnProperty", "isPrototypeOf",
     "propertyIsEnumerable", "toLocaleString", "__proto__"}

\* SEV_MAPPING[priority]: a property read, which follows the prototype chain
SevMappingGet(priority) ==
    IF priority \in DOMAIN SEV_MAPPING THEN SEV_MAPPING[priority]
    ELSE IF priority \in ObjectPrototypeKeys THEN "obj:Object.prototype." \o priority
    ELSE "undefined"

(***************************************************************************)
(* Metadata index (emsIdMapping) and the join key.                         *)
(***************************************************************************)
NoRecord == [id |-> "", priority |-> "", speechText |-> <<>>]

\* new Map(); for (alert of current) set(alert.id, alert): last occurrence wins
BuildIndex(current) ==
    [id \in {current[i].id : i \in 1..Len(current)} |->
        current[CHOOSE i \in 1..Len(current) :
                    /\ current[i].id = id
                    /\ \A j \in 1..Len(current) : current[j].id = id => j <= i]]

\* url.replace(/.*#\//, ''): everything up to and including the last "#/" goes
EmsId(urlText) ==
    LET seps == {i \in 1..Len(urlText) : urlText[i] = "#/"}
    IN  IF seps = {} THEN Join(urlText)
        ELSE LET last == CHOOSE i \in seps : \A j \in seps : j <= i
             IN  Join(SubSeq(urlText, last + 1, Len(urlText)))

\* lines 48-60: severity from the priority table, tts text from speechText
ApplyMatched(alert, rec) ==
    LET sev == SevMappingGet(rec.priority)
        ttsText == Trim(TextOf(rec.speechText))
        a1 == IF sev # "undefined" THEN [alert EXCEPT !.sev = sev] ELSE alert
    IN  IF rec.speechText # <<>> /\ ttsText # <<>>
        THEN [a1 EXCEPT !.tts = <<Tr(ttsText, "en")>>]
        ELSE a1

(***************************************************************************)
(* Informed-entity rewrite.                                                *)
(***************************************************************************)
RECURSIVE Filter(_, _, _)
\* the subsequence of xs at the positions in keep
Filter(xs, keep, i) ==
    IF i > Len(xs) THEN <<>>
    ELSE (IF i \in keep THEN <<xs[i]>> ELSE <<>>) \o Filter(xs, keep, i + 1)

Mapped(xs, Op(_)) == [i \in 1..Len(xs) |-> Op(xs[i])]

TripOnly(e) == Sel(e.trip, "", "", "")
Whole(e) == e

\* the selectors pushed while looping over the existing list
TripSelectors(rev, ie) ==
    LET trips == Filter(ie, {i \in 1..Len(ie) : ie[i].trip # ""}, 1)
    IN  IF rev = "index" THEN Mapped(trips, Whole) ELSE Mapped(trips, TripOnly)

\* which selectors feed the stop and route sets: all of them in index.js, the
\* ones without a trip in the later revisions
FeedsSets(rev, e) == rev = "index" \/ e.trip = ""

StopIdOf(e) == e.stopId
RouteKeyOf(e) == <<e.routeId, e.agencyId>>
AgencyOf(e) == e.agencyId

CollectStops(rev, ie) ==
    AddAll(<<>>, Mapped(Filter(ie, {i \in 1..Len(ie) :
                    FeedsSets(rev, ie[i]) /\ ie[i].stopId # ""}, 1), StopIdOf))

\* JSON.stringify({routeId, agencyId}) is the key: the pair
CollectRoutes(rev, ie) ==
    AddAll(<<>>, Mapped(Filter(ie, {i \in 1..Len(ie) :
                    FeedsSets(rev, ie[i]) /\ ie[i].routeId # ""}, 1), RouteKeyOf))

CollectAgencyIds(ie) == {ie[i].agencyId : i \in {k \in 1..Len(ie) : ie[k].agencyId # ""}}

IsRail(rev, ie) == rev = "part_001" /\ CollectAgencyIds(ie) \cap RailAgencies # {}

StopSel(s) == Sel("", s, "", "")
RouteSel(r) == Sel("", "", r[1], r[2])

\* trips, then the stops, then the routes
RebuildInformed(trips, stops, routes) ==
    trips \o Mapped(stops, StopSel) \o Mapped(routes, RouteSel)

\* StopHeuristic with a fault seeded: stops.clear() is missing
StopHeuristicNoClear(rev, stops, isRail, descTxt) ==
    IF rev = "part_001" /\ stops # <<>> /\ ~isRail /\ descTxt # <<>>
       /\ TsnMatches(descTxt) # <<>>
    THEN AddAll(stops, TsnMatches(descTxt))
    ELSE stops

\* lines 137-142: the stops named in the description replace the stop set
StopHeuristic(rev, stops, isRail, descTxt) ==
    IF rev = "part_001" /\ stops # <<>> /\ ~isRail /\ descTxt # <<>>
       /\ TsnMatches(descTxt) # <<>>
    THEN AddAll(<<>>, TsnMatches(descTxt))
    ELSE stops

(***************************************************************************)
(* Description cleanup.                                                    *)
(***************************************************************************)
\* descTranslations.find(v => v.language === 'en/html' || v.text.match(...))
IsHtmlTranslation(v) == v.language = "en/html" \/ HasBlockMarkup(v.text)

FindFirst(xs, P(_)) ==
    LET hits == {i \in 1..Len(xs) : P(xs[i])}
    IN  IF hits = {} THEN 0 ELSE CHOOSE i \in hits : \A j \in hits : i <= j

\* the flattened text of the HTML translation
CleanHtml(rev, html) ==
    LET text == Trim(TextOf(LiBullets(html)))
    IN  IF rev = "part_001" THEN Trim(ReplaceTrailingDot(text)) ELSE text

TrimTranslation(v) == [v EXCEPT !.text = Trim(v.text)]

\* the description's translation list after the step
CleanedTranslations(rev, desc) ==
    LET h == FindFirst(desc, IsHtmlTranslation)
    IN  IF rev = "index" THEN desc
        ELSE IF h # 0
        THEN IF rev = "part_001"
             THEN <<Tr(CleanHtml(rev, desc[h].text), "en"), desc[h]>>
             ELSE <<Tr(CleanHtml(rev, desc[h].text), "en")>>
        ELSE Mapped(desc, TrimTranslation)

\* descTxt (part_001 only): the cleaned text, or the last trimmed text, or
\* undefined (the empty text here: both are falsy wherever descTxt is read)
DescTxt(rev, desc) ==
    LET h == FindFirst(desc, IsHtmlTranslation)
    IN  IF rev # "part_001" THEN <<>>
        ELSE IF h # 0 THEN CleanHtml(rev, desc[h].text)
        ELSE IF desc = <<>> THEN <<>>
        ELSE Trim(desc[Len(desc)].text)

(***************************************************************************)
(* Header emoji annotation.                                                *)
(***************************************************************************)
IsEnglish(v) == v.language = "en"

\* the prefix of the first rule that matches, <<>> when none does
EmojiPrefix(matchTxt, cause, effect, isRail) ==
    IF MatchLift(matchTxt) THEN <<"(no-entry)(lift)", " ">>
    ELSE IF MatchBusStop(matchTxt) THEN <<"(no-entry)(bus-stop)", " ">>
    ELSE IF MatchTrackwork(matchTxt) THEN <<"(tools)(track)", " ">>
    ELSE IF cause = MAINTENANCE /\ effect = MODIFIED_SERVICE /\ isRail
    THEN <<"(tools)(track)", " ">>
    ELSE IF cause = MAINTENANCE /\ effect = MODIFIED_SERVICE THEN <<"(tools)", " ">>
    ELSE IF cause = WEATHER THEN <<"(snow)", " ">>
    ELSE IF effect = MODIFIED_SERVICE \/ effect = DETOUR THEN <<"(shuffle)", " ">>
    ELSE <<>>

\* part_000 reads header.tet, which no translation has: .match of undefined
HeaderFaults(rev, hdr) == rev = "part_000" /\ FindFirst(hdr, IsEnglish) # 0

AnnotateHeader(rev, hdr, descTxt, cause, effect, isRail) ==
    LET h == FindFirst(hdr, IsEnglish)
    IN  IF rev # "part_001" \/ h = 0 THEN hdr
        ELSE LET prefix == EmojiPrefix(hdr[h].text \o <<"\n">> \o descTxt,
                                       cause, effect, isRail)
             IN  IF prefix = <<>> THEN hdr
                 ELSE [hdr EXCEPT ![h].text = prefix \o Trim(hdr[h].text)]

(***************************************************************************)
(* One pass of the loop over decoded.entity, and the whole pipeline.       *)
(***************************************************************************)
\* const url = lodash.get(entity, 'alert.url.translation[0].text');
\* url.replace(...) of undefined throws
UrlFaults(alert) == alert.url = <<>>

EnrichAlert(rev, alert, idx) ==
    LET emsId == EmsId(alert.url[1].text)
        a1 == IF emsId \in DOMAIN idx THEN ApplyMatched(alert, idx[emsId]) ELSE alert
        descTxt == DescTxt(rev, alert.desc)
        isRail == IsRail(rev, alert.ie)
        stops == StopHeuristic(rev, CollectStops(rev, alert.ie), isRail, descTxt)
    IN  [a1 EXCEPT
            !.ie = RebuildInformed(TripSelectors(rev, alert.ie), stops,
                                   CollectRoutes(rev, alert.ie)),
            !.desc = CleanedTranslations(rev, alert.desc),
            !.hdr = AnnotateHeader(rev, alert.hdr, descTxt, alert.cause,
                                   alert.effect, isRail)]

\* "" when the pass completes, else the error it throws
EntityFault(rev, alert) ==
    IF UrlFaults(alert) \/ HeaderFaults(rev, alert.hdr) THEN "TypeError" ELSE ""

\* normal.entity = normal.entity.filter(e => e.alert.severityLevel !== 'INFO')
NotInfo(alert) == alert.sev # "str:INFO"

Partition(entities) ==
    [all |-> entities,
     normal |-> Filter(entities, {i \in 1..Len(entities) : NotInfo(entities[i])}, 1)]

\* the error of the first entity that throws, "" when none does
PipelineFault(rev, payload) ==
    IF ~payload.decodes THEN "DecodeError"
    ELSE IF \E i \in 1..Len(payload.entity) : EntityFault(rev, payload.entity[i]) # ""
    THEN "TypeError"
    ELSE ""

\* {all, normal} of a run that does not throw
PipelineValue(rev, addInfo, payload) ==
    LET idx == BuildIndex(addInfo)
    IN  Partition([i \in 1..Len(payload.entity) |->
                        EnrichAlert(rev, payload.entity[i], idx)])

(***************************************************************************)
(* Result cache: new NodeCache({stdTTL: 30, useClones: false}), one key.   *)
(* Times are in seconds (node-cache keeps milliseconds: t = now + ttl *    *)
(* 1000).                                                                  *)
(***************************************************************************)
stdTTL == 30

NoValue == [some |-> FALSE, all |-> <<>>, normal |-> <<>>]
Value(pair) == [some |-> TRUE, all |-> pair.all, normal |-> pair.normal]

\* storedAt is bookkeeping of the model: when the entry was written
NoEntry == [present |-> FALSE, val |-> NoValue, t |-> 0, storedAt |-> 0]

\* node-cache _check: an entry is expired once its time t lies in the past
Expired(entry, time) == entry.present /\ entry.t # 0 /\ entry.t < time

\* CacheGet with a fault seeded: the expiry time is never looked at
CacheGetNoExpiry(entry, time) == IF entry.present THEN entry.val ELSE NoValue

\* srvCache.get('cached'): the value, undefined for no entry or an expired one
CacheGet(entry, time) ==
    IF entry.present /\ ~Expired(entry, time) THEN entry.val ELSE NoValue

\* get deletes an expired entry
CacheAfterGet(entry, time) == IF Expired(entry, time) THEN NoEntry ELSE entry

\* srvCache.set('cached', {all, normal})
CacheSet(val, time) ==
    [present |-> TRUE, val |-> val, t |-> time + stdTTL, storedAt |-> time]

\* CacheAfterRun with a fault seeded: the slot is written before the loop has run
CacheAfterRunEarlyWrite(entry, fault, val, time) == CacheSet(val, time)

\* the slot after the synchronous tail of a run (lines 37-161): written once,
\* after the loop, by a run that did not throw
CacheAfterRun(entry, fault, val, time) ==
    IF fault = "" THEN CacheSet(val, time) ELSE entry

\* AfterLookup with a fault seeded: a miss while another request is fetching waits for it
AfterLookupSingleFlight(pcs, r, cached) ==
    IF cached.some THEN "done"
    ELSE IF \E q \in DOMAIN pcs : q # r /\ pcs[q] \in {"fetch1", "fetch2"} THEN "wait"
    ELSE "fetch1"

\* where a call goes after the cache lookup: a hit returns, a miss awaits its
\* own axios.get, whatever the other requests are doing
AfterLookup(pcs, r, cached) == IF cached.some THEN "done" ELSE "fetch1"

(***************************************************************************)
(* Upstream payloads of the cache specification.                           *)
(***************************************************************************)
Alert(url, sev, ie, desc, hdr, cause, effect) ==
    [url |-> url, sev |-> sev, tts |-> <<>>, ie |-> ie, desc |-> desc,
     hdr |-> hdr, cause |-> cause, effect |-> effect]

UrlOf(key) == <<Tr(<<"https://t/", "#/", key>>, "en")>>

\* matched by k1, a stop and a trip, block markup, no English header
AlertPlain ==
    Alert(UrlOf("k1"), "num:1", <<Sel("", "200060", "", ""), Sel("t1", "", "", "")>>,
          <<Tr(<<"<div>", "w", "</div>">>, "en/html")>>,
          <<Tr(<<"w">>, "fr")>>, 1, 1)
\* unmatched, INFO (2) upstream, no description
AlertUpstreamInfo ==
    Alert(UrlOf("k9"), "num:2", <<Sel("", "", "r1", "SydneyTrains")>>, <<>>,
          <<Tr(<<"Lift at", " ", "w", " ", "not available">>, "fr")>>,
          MAINTENANCE, MODIFIED_SERVICE)
\* no url, no header, no description
AlertNoUrl == Alert(<<>>, "num:3", <<>>, <<>>, <<>>, 1, 1)

AddInfos ==
    { <<[id |-> "k1", priority |-> "low", speechText |-> <<>>]>>,
      <<[id |-> "k1", priority |-> "normal", speechText |-> <<"<div>", "w", "</div>">>]>> }

Payloads ==
    { [decodes |-> FALSE, entity |-> <<>>],
      [decodes |-> TRUE, entity |-> <<AlertPlain, AlertUpstreamInfo>>],
      [decodes |-> TRUE, entity |-> <<AlertNoUrl, AlertPlain>>] }

(***************************************************************************)
(* Inputs of the per-alert specification: one field group is varied at a   *)
(* time over a bounded set, the others hold a plain value.                 *)
(***************************************************************************)
RECURSIVE SeqsUpTo(_, _)
\* the sequences over S of length at most n
SeqsUpTo(S, n) ==
    IF n = 0 THEN {<<>>}
    ELSE LET shorter == SeqsUpTo(S, n - 1)
         IN  shorter \cup {Append(q, x) : q \in shorter, x \in S}

PlainIe == <<Sel("", "200060", "", "")>>
PlainDesc == <<Tr(<<"w">>, "en")>>
PlainHdr == <<Tr(<<"w">>, "fr")>>
PlainAddInfo == <<[id |-> "k1", priority |-> "low", speechText |-> <<>>]>>

\* severity and matching: url shapes, upstream severities, priorities
UrlInputs ==
    { <<>>, UrlOf("k1"), UrlOf("k9"), <<Tr(<<"k1">>, "en")>>,
      <<Tr(<<"https://t/", "#/", "k9", "#/", "k1">>, "en")>> }
PriorityInputs == {"low", "normal", "high", "veryHigh", "constructor"}
SpeechInputs == { <<>>, <<"<div>", " ", "</div>">>, <<"<div>", "w", "</div>", " ">> }
AddInfoInputs ==
    { <<>> } \cup
    { <<[id |-> "k1", priority |-> p, speechText |-> t]>> :
        p \in PriorityInputs, t \in SpeechInputs } \cup
    { << [id |-> "k1", priority |-> p, speechText |-> <<>>],
         [id |-> "k1", priority |-> q, speechText |-> <<>>] >> :
        p \in {"low", "high"}, q \in {"normal", "high"} }
SeverityInputs ==
    { <<Alert(u, v, PlainIe, PlainDesc, PlainHdr, 1, 1), a>> :
        u \in UrlInputs, v \in {"num:1", "num:2", "num:3"}, a \in AddInfoInputs }

\* informed entities: every selector list up to MaxSel
SelInputs ==
    { Sel(t, s, r, a) : t \in {"", "t1"}, s \in {"", "200060"}, r \in {"", "r1"},
                        a \in {"", "SydneyTrains"} }
InformedInputs ==
    { <<Alert(UrlOf("k1"), "num:1", ie, d, PlainHdr, 1, 1), PlainAddInfo>> :
        ie \in SeqsUpTo(SelInputs, MaxSel),
        d \in { PlainDesc, <<Tr(<<"201234", " ", "200060">>, "en")>> } }

\* stop heuristic: every description over the stop alphabet up to MaxDescLen
StopAlphabet == {"201234", "205678", "1", "w", " "}
StopIeInputs ==
    { <<>>, PlainIe, <<Sel("", "201234", "", "")>>,
      <<Sel("", "200060", "", ""), Sel("", "205678", "", ""), Sel("", "200060", "", "")>>,
      <<Sel("", "200060", "", ""), Sel("", "", "r1", "SydneyTrains")>>,
      <<Sel("", "200060", "", ""), Sel("t1", "", "", "LR")>>,
      <<Sel("", "200060", "", ""), Sel("", "", "r1", "Bus")>>,
      <<Sel("t1", "200060", "", "")>> }
StopInputs ==
    { <<Alert(UrlOf("k1"), "num:1", ie, d, PlainHdr, 1, 1), PlainAddInfo>> :
        ie \in StopIeInputs,
        d \in { <<>> } \cup { <<Tr(t, "en")>> : t \in SeqsUpTo(StopAlphabet, MaxDescLen) }
               \cup { <<Tr(<<"<li>", "201234", "</li>", "<li>", "205678">>, "en/html")>>,
                      <<Tr(<<"201234">>, "en"), Tr(<<"w">>, "fr")>> } }

\* description cleanup: every text over the markup alphabet up to MaxDescLen
DescAlphabet == {" ", "w", "<div>", "<li>", "</li>", "&lt;li&gt;"}
DescInputs ==
    { <<Alert(UrlOf("k1"), "num:1", PlainIe, d, PlainHdr, 1, 1), PlainAddInfo>> :
        d \in { <<Tr(t, l)>> : t \in SeqsUpTo(DescAlphabet, MaxDescLen),
                               l \in {"en", "en/html"} }
              \cup { <<Tr(<<" ", "w">>, "en"), Tr(t, l)>> :
                        t \in SeqsUpTo(DescAlphabet, 1), l \in {"fr", "en/html"} }
              \cup { <<Tr(t, "en/html")>> :
                        t \in { <<"<div>", "w", "\n", " ", ".">>, <<"w", "\n", "\n", ".">>,
                                <<"w", " ", ".">>, <<"\n", ".">> } } }

\* header annotation: header texts, description texts, cause, effect, agency
HdrTextInputs ==
    { <<>>, <<" ", "w", " ">>,
      <<"Lift at", " ", "w", " ", "not available">>,
      <<" ", "lift at", " ", " ", "out of service">>,
      <<"Lift at", " ", "not available">>,
      <<"Lift at", " ", "w">>,
      <<"w", " ", "Bus stop closures">>,
      <<"Trackwork may affect your travel", " ">>,
      <<"Lift at", " ", "w", " ", "out of service", " ",
        "Trackwork may affect your travel">>,
      <<"bus stop closure", " ", "Trackwork may affect your travel">> }
HdrDescInputs ==
    { <<>>, <<Tr(<<"w">>, "en")>>,
      <<Tr(<<" ", "w", " ", "not available">>, "en")>>,
      <<Tr(<<"<li>", "bus stop closure", "</li>">>, "en/html")>>,
      <<Tr(<<"Trackwork may affect your travel">>, "en")>> }
HdrIeInputs ==
    { <<>>, <<Sel("", "", "r1", "SydneyTrains")>>, <<Sel("", "", "r1", "Bus")>> }
HeaderInputs ==
    { <<Alert(UrlOf("k1"), "num:1", ie, d, h, c, e), PlainAddInfo>> :
        ie \in HdrIeInputs, d \in HdrDescInputs,
        h \in { <<>> } \cup { <<Tr(t, "en")>> : t \in HdrTextInputs }
               \cup { <<Tr(t, "fr"), Tr(t, "en"), Tr(t, "en")>> : t \in HdrTextInputs },
        c \in {1, WEATHER, MAINTENANCE}, e \in {1, DETOUR, MODIFIED_SERVICE} }

AlertInputs ==
    SeverityInputs \cup InformedInputs \cup StopInputs \cup DescInputs \cup HeaderInputs

(***************************************************************************)
(* State.                                                                  *)
(***************************************************************************)
VARIABLES
    rev,          \* the revision that runs
    now,          \* the clock, seconds
    srvCache,     \* the slot 'cached' of srvCache
    pc,           \* per request: idle, fetch1, fetch2, done, failed
    addInfoData,  \* per request: the secondary feed it fetched
    ret,          \* per request: what its getMatchedAlerts call settled with
    fetches,      \* per request: axios.get calls of its current call
    seen,         \* per request: the slot as its current call found it
    startSlot,    \* per request: what the slot read when its call started
    endSlot,      \* per request: when its call threw, whether the slot read the same
    phase,        \* per-alert specification: off, input, enriched, again
    input,        \* per-alert specification: <<alert, secondary feed>>
    out,          \* per-alert specification: the enriched alert, or the fault
    again         \* per-alert specification: description cleaned a second time

vars == <<rev, now, srvCache, pc, addInfoData, ret, fetches, seen, startSlot, endSlot,
          phase, input, out, again>>
cacheVars == <<now, srvCache, pc, addInfoData, ret, fetches, seen, startSlot, endSlot>>
alertVars == <<phase, input, out, again>>

Req == 1..NumReq

NoRet == [kind |-> "none", val |-> NoValue, err |-> ""]
Returned(val) == [kind |-> "value", val |-> val, err |-> ""]
Thrown(err) == [kind |-> "error", val |-> NoValue, err |-> err]

\* what a call found in the slot: no entry, or an entry younger than the ttl
\* (fresh, with its value), as old as the ttl (edge), or older (expired)
NotSeen == [entry |-> "none", val |-> NoValue]
Seen(entry, time) ==
    IF ~entry.present THEN NotSeen
    ELSE IF time - entry.storedAt < stdTTL THEN [entry |-> "fresh", val |-> entry.val]
    ELSE IF time - entry.storedAt = stdTTL THEN [entry |-> "edge", val |-> NoValue]
    ELSE [entry |-> "expired", val |-> NoValue]

\* the value a reader of the slot gets at that time
Visible(entry, time) ==
    IF entry.present /\ time - entry.storedAt <= stdTTL THEN entry.val ELSE NoValue

\* whether the slot reads as it did when the call started
SlotAtThrow(entry, time, found) ==
    IF Visible(entry, time) = found THEN "same" ELSE "changed"

NoOut == [fault |-> "", alert |-> AlertNoUrl, descTxt |-> <<>>, isRail |-> FALSE]

CacheInit ==
    /\ now = 0
    /\ srvCache = NoEntry
    /\ pc = [r \in Req |-> "idle"]
    /\ addInfoData = [r \in Req |-> <<>>]
    /\ ret = [r \in Req |-> NoRet]
    /\ fetches = [r \in Req |-> 0]
    /\ seen = [r \in Req |-> NotSeen]
    /\ startSlot = [r \in Req |-> NoValue]
    /\ endSlot = [r \in Req |-> ""]

Init ==
    /\ rev \in Rev
    /\ CacheInit
    /\ phase = "off"
    /\ input = <<AlertNoUrl, <<>>>>
    /\ out = NoOut
    /\ again = <<>>

(***************************************************************************)
(* getMatchedAlerts, one action per stretch between two awaits.            *)
(***************************************************************************)
\* lines 26-32: the lookup; a hit returns, a miss issues the first fetch
Call(r) ==
    /\ pc[r] = "idle"
    /\ LET cached == CacheGet(srvCache, now)
           next == AfterLookup(pc, r, cached)
       IN  /\ pc' = [pc EXCEPT ![r] = next]
           /\ ret' = [ret EXCEPT ![r] = IF next = "done" THEN Returned(cached) ELSE NoRet]
           /\ fetches' = [fetches EXCEPT ![r] = IF next = "fetch1" THEN 1 ELSE 0]
    /\ srvCache' = CacheAfterGet(srvCache, now)
    /\ seen' = [seen EXCEPT ![r] = Seen(srvCache, now)]
    /\ startSlot' = [startSlot EXCEPT ![r] = Visible(srvCache, now)]
    /\ endSlot' = [endSlot EXCEPT ![r] = ""]
    /\ UNCHANGED <<rev, now, addInfoData, alertVars>>

\* line 32 resolves, line 33 issues the second fetch
Fetch1Ok(r) ==
    /\ pc[r] = "fetch1"
    /\ \E d \in AddInfos : addInfoData' = [addInfoData EXCEPT ![r] = d]
    /\ pc' = [pc EXCEPT ![r] = "fetch2"]
    /\ fetches' = [fetches EXCEPT ![r] = 2]
    /\ UNCHANGED <<rev, now, srvCache, ret, seen, startSlot, endSlot, alertVars>>

\* an axios.get rejects (after its retries): the call throws
FetchFail(r) ==
    /\ pc[r] \in {"fetch1", "fetch2"}
    /\ pc' = [pc EXCEPT ![r] = "failed"]
    /\ ret' = [ret EXCEPT ![r] = Thrown("UpstreamFetchError")]
    /\ endSlot' = [endSlot EXCEPT ![r] = SlotAtThrow(srvCache, now, startSlot[r])]
    /\ UNCHANGED <<rev, now, srvCache, addInfoData, fetches, seen, startSlot, alertVars>>

\* line 33 resolves; lines 37-161 run to the return or to the first throw
Fetch2Ok(r) ==
    /\ pc[r] = "fetch2"
    /\ \E p \in Payloads :
         LET fault == PipelineFault(rev, p)
             val == IF fault = "" THEN Value(PipelineValue(rev, addInfoData[r], p))
                    ELSE NoValue
         IN  /\ srvCache' = CacheAfterRun(srvCache, fault, val, now)
             /\ pc' = [pc EXCEPT ![r] = IF fault = "" THEN "done" ELSE "failed"]
             /\ ret' = [ret EXCEPT ![r] = IF fault = "" THEN Returned(val) ELSE Thrown(fault)]
             /\ endSlot' = [endSlot EXCEPT ![r] =
                              IF fault = "" THEN ""
                              ELSE SlotAtThrow(srvCache', now, startSlot[r])]
    /\ UNCHANGED <<rev, now, addInfoData, fetches, seen, startSlot, alertVars>>

\* the route handler is done with the call; the next request may come
Finish(r) ==
    /\ pc[r] \in {"done", "failed"}
    /\ pc' = [pc EXCEPT ![r] = "idle"]
    /\ addInfoData' = [addInfoData EXCEPT ![r] = <<>>]
    /\ ret' = [ret EXCEPT ![r] = NoRet]
    /\ fetches' = [fetches EXCEPT ![r] = 0]
    /\ seen' = [seen EXCEPT ![r] = NotSeen]
    /\ startSlot' = [startSlot EXCEPT ![r] = NoValue]
    /\ endSlot' = [endSlot EXCEPT ![r] = ""]
    /\ UNCHANGED <<rev, now, srvCache, alertVars>>

Tick ==
    /\ now + TickSec <= MaxTime
    /\ now' = now + TickSec
    /\ UNCHANGED <<rev, srvCache, pc, addInfoData, ret, fetches, seen, startSlot, endSlot,
                   alertVars>>

Next ==
    \/ \E r \in Req : Call(r)
    \/ \E r \in Req : Fetch1Ok(r)
    \/ \E r \in Req : FetchFail(r)
    \/ \E r \in Req : Fetch2Ok(r)
    \/ \E r \in Req : Finish(r)
    \/ Tick

Spec == Init /\ [][Next]_vars

(***************************************************************************)
(* The per-alert specification: the loop body applied to one alert, and    *)
(* the description cleanup applied to its own result.                      *)
(***************************************************************************)
InitAlert ==
    /\ rev \in Rev
    /\ CacheInit
    /\ phase = "input"
    /\ input \in AlertInputs
    /\ out = NoOut
    /\ again = <<>>

EnrichStep ==
    /\ phase = "input"
    /\ phase' = "enriched"
    /\ LET fault == EntityFault(rev, input[1])
       IN  out' = IF fault # "" THEN [NoOut EXCEPT !.fault = fault]
                  ELSE [fault |-> "",
                        alert |-> EnrichAlert(rev, input[1], BuildIndex(input[2])),
                        descTxt |-> DescTxt(rev, input[1].desc),
                        isRail |-> IsRail(rev, input[1].ie)]
    /\ UNCHANGED <<rev, cacheVars, input, again>>

CleanAgainStep ==
    /\ phase = "enriched"
    /\ out.fault = ""
    /\ phase' = "again"
    /\ again' = CleanedTranslations(rev, out.alert.desc)
    /\ UNCHANGED <<rev, cacheVars, input, out>>

NextAlert == EnrichStep \/ CleanAgainStep

SpecAlert == InitAlert /\ [][NextAlert]_vars

(***************************************************************************)
(* Claims.                                                                 *)
(***************************************************************************)
Range(q) == {q[i] : i \in 1..Len(q)}
NoRepeats(q) == \A i \in 1..Len(q) : \A j \in 1..Len(q) : q[i] = q[j] => i = j

\* INFO of the feed's severity enum: the number 2 as decoded, or the name
IsInfo(alert) == alert.sev \in {"num:2", "str:INFO"}

PairPartitioned(v) ==
    v.some => v.normal = Filter(v.all, {i \in 1..Len(v.all) : ~IsInfo(v.all[i])}, 1)

\* C1: in every pair {all, normal} that getMatchedAlerts returns or caches,
\* normal.entity is all.entity, in order, without the entities whose
\* severityLevel is INFO, whether the upstream feed or the priority table set it.
C1_NormalIsAllWithoutInfo ==
    /\ PairPartitioned(srvCache.val)
    /\ \A r \in Req : PairPartitioned(ret[r].val)

\* what the code does hold: the entities whose severityLevel is the string
\* 'INFO', which only the priority table produces, are the ones left out
C1_NormalIsAllWithoutMappedInfo ==
    \A v \in {srvCache.val} \cup {ret[r].val : r \in Req} :
        v.some => v.normal = Filter(v.all, {i \in 1..Len(v.all) :
                                                v.all[i].sev # "str:INFO"}, 1)

Enriched == phase = "enriched" /\ out.fault = ""

\* the record the alert's join key finds, NoRecord when it finds none
MatchedRecord ==
    LET idx == BuildIndex(input[2])
        key == EmsId(input[1].url[1].text)
    IN  IF key \in DOMAIN idx THEN idx[key] ELSE NoRecord

\* C2: the severityLevel of an alert whose join key is in the index is
\* overwritten iff the record's priority is low (INFO) or normal (WARNING); for
\* any other priority, and for an alert without a record, it keeps its
\* upstream value.
C2_SeveritySetIffMapped ==
    Enriched =>
        out.alert.sev = (IF MatchedRecord.priority = "low" THEN "str:INFO"
                         ELSE IF MatchedRecord.priority = "normal" THEN "str:WARNING"
                         ELSE input[1].sev)

IsTripSel(e) == e.trip # ""
IsStopSel(e) == e.trip = "" /\ e.stopId # ""
IsRouteSel(e) == e.trip = "" /\ e.routeId # ""
Only(q, P(_)) == Filter(q, {i \in 1..Len(q) : P(q[i])}, 1)

\* C3: the rebuilt informedEntity list holds each stop id and each (routeId,
\* agencyId) pair at most once, and the trip selectors of the input, as many
\* and in their order, each with its trip reference only; a selector with a
\* trip adds no stop and no route selector.
C3_InformedEntityRebuilt ==
    (Enriched /\ rev \in {"index", "part_001"}) =>
        LET old == input[1].ie
            new == out.alert.ie
        IN  /\ NoRepeats(Mapped(Only(new, IsStopSel), StopIdOf))
            /\ NoRepeats(Mapped(Only(new, IsRouteSel), RouteKeyOf))
            /\ Only(new, IsTripSel) = Mapped(Only(old, IsTripSel), TripOnly)
            /\ \A e \in Range(Only(new, IsRouteSel)) :
                  \E o \in Range(old) : ~IsTripSel(o) /\ RouteKeyOf(o) = RouteKeyOf(e)
            /\ rev = "index" =>
                  \A e \in Range(Only(new, IsStopSel)) :
                      \E o \in Range(old) : ~IsTripSel(o) /\ o.stopId = e.stopId

\* the same statement of part_000 and part_001, the revisions whose loop
\* tells the trip selectors from the others
C3_InformedEntityRebuiltLater ==
    (Enriched /\ rev \in {"part_000", "part_001"}) =>
        LET old == input[1].ie
            new == out.alert.ie
        IN  /\ NoRepeats(Mapped(Only(new, IsStopSel), StopIdOf))
            /\ NoRepeats(Mapped(Only(new, IsRouteSel), RouteKeyOf))
            /\ Only(new, IsTripSel) = Mapped(Only(old, IsTripSel), TripOnly)
            /\ \A e \in Range(Only(new, IsRouteSel)) :
                  \E o \in Range(old) : ~IsTripSel(o) /\ RouteKeyOf(o) = RouteKeyOf(e)

\* the seven rules, in their order, as the set of the rules that match
RulesMatching(matchTxt, cause, effect, rail) ==
    {n \in 1..7 :
        \/ n = 1 /\ MatchLift(matchTxt)
        \/ n = 2 /\ MatchBusStop(matchTxt)
        \/ n = 3 /\ MatchTrackwork(matchTxt)
        \/ n = 4 /\ cause = MAINTENANCE /\ effect = MODIFIED_SERVICE /\ rail
        \/ n = 5 /\ cause = MAINTENANCE /\ effect = MODIFIED_SERVICE /\ ~rail
        \/ n = 6 /\ cause = WEATHER
        \/ n = 7 /\ effect \in {MODIFIED_SERVICE, DETOUR}}

PrefixOfRule(n) ==
    CASE n = 1 -> <<"(no-entry)(lift)", " ">>
      [] n = 2 -> <<"(no-entry)(bus-stop)", " ">>
      [] n \in {3, 4} -> <<"(tools)(track)", " ">>
      [] n = 5 -> <<"(tools)", " ">>
      [] n = 6 -> <<"(snow)", " ">>
      [] n = 7 -> <<"(shuffle)", " ">>

\* no selector's agencyId is a rail operator's
HasRailAgency(ie) == \E e \in Range(ie) : e.agencyId \in RailAgencies

\* the header after the pass is the prefix of the first matching rule before
\* the trimmed header, or the header as it was when no rule matches
HeaderAnnotatedOnce ==
    LET a == input[1]
        h == FindFirst(a.hdr, IsEnglish)
        rules == RulesMatching(a.hdr[h].text \o <<"\n">> \o out.descTxt, a.cause,
                               a.effect, HasRailAgency(a.ie))
        first == CHOOSE n \in rules : \A m \in rules : n <= m
    IN  /\ out.fault = ""
        /\ Len(out.alert.hdr) = Len(a.hdr)
        /\ \A i \in 1..Len(a.hdr) :
              out.alert.hdr[i] =
                 IF i = h /\ rules # {}
                 THEN Tr(PrefixOfRule(first) \o Trim(a.hdr[i].text), "en")
                 ELSE a.hdr[i]

HasEnglishHeader ==
    phase = "enriched" /\ ~UrlFaults(input[1]) /\ FindFirst(input[1].hdr, IsEnglish) # 0

\* C4: an alert with an English header gets, in one run, at most one emoji
\* prefix, that of the first rule that matches in the order lift, bus stop
\* closure, trackwork, rail maintenance, maintenance, weather, modified service
\* or detour; with no matching rule the header is unchanged.
C4_HeaderAnnotatedOnce ==
    (HasEnglishHeader /\ rev \in {"part_000", "part_001"}) => HeaderAnnotatedOnce

\* the same statement of part_001 alone
C4_HeaderAnnotatedOnceLatest ==
    (HasEnglishHeader /\ rev = "part_001") => HeaderAnnotatedOnce

\* an alert that the lift rule and the rail maintenance rule both match
C4_LiftBeatsRailMaintenance ==
    /\ HasEnglishHeader /\ rev = "part_001"
    /\ {1, 4} \subseteq RulesMatching(
            input[1].hdr[FindFirst(input[1].hdr, IsEnglish)].text \o <<"\n">> \o out.descTxt,
            input[1].cause, input[1].effect, HasRailAgency(input[1].ie))

OldStops == {e.stopId : e \in Range(Only(input[1].ie, IsStopSel))}
NewStops == Mapped(Only(out.alert.ie, IsStopSel), StopIdOf)
Tokens == Range(TsnMatches(out.descTxt))
HeuristicApplies == OldStops # {} /\ ~HasRailAgency(input[1].ie) /\ Tokens # {}

\* C8 as stated: where the alert has a stop selector, is not rail and descTxt
\* holds a 6-or-more-digit token in "2", the rebuilt list holds none of the
\* original stop selectors and one stop selector per distinct token; else the
\* stop selectors are the original stop ids without repeats.
C8_StopsReplacedNoneKept ==
    (Enriched /\ rev = "part_001") =>
        /\ NoRepeats(NewStops)
        /\ IF HeuristicApplies
           THEN Range(NewStops) = Tokens /\ Range(NewStops) \cap OldStops = {}
           ELSE Range(NewStops) = OldStops

\* C8, amended: ... the stop selectors of the rebuilt list are one per
\* distinct token and nothing else, so an original stop id stays only where the
\* description names it; else they are the original stop ids without repeats.
C8_StopsReplacedByTokens ==
    (Enriched /\ rev = "part_001") =>
        /\ NoRepeats(NewStops)
        /\ IF HeuristicApplies
           THEN Range(NewStops) = Tokens
           ELSE Range(NewStops) = OldStops

\* the example of the claim: stop 200060, not rail, two tokens in descTxt
C8_StopsReplacedWitness ==
    /\ Enriched /\ rev = "part_001"
    /\ OldStops = {"200060"} /\ ~HasRailAgency(input[1].ie)
    /\ Tokens = {"201234", "205678"}
    /\ NewStops \in {<<"201234", "205678">>, <<"205678", "201234">>}

TextOfTr(v) == v.text

\* C9: the description cleanup applied to its own result gives the texts that
\* the first application gave.
C9_CleanupIdempotent ==
    (phase = "again" /\ rev \in {"part_000", "part_001"}) =>
        Mapped(again, TextOfTr) = Mapped(out.alert.desc, TextOfTr)

\* C7, per alert: a pass over an alert of any shape completes
C7_PassCompletes == phase = "enriched" => out.fault = ""

InCall(r) == pc[r] # "idle"
SawMiss(r) == InCall(r) /\ seen[r].entry \in {"none", "expired"}
Completes(r) == pc[r] = "fetch2" /\ pc'[r] = "done"

\* a completing run wrote the pair it returns, computed from its own fetches,
\* into the slot, as an entry of age 0
StoresOwnPair(r) ==
    /\ ret'[r].kind = "value"
    /\ \E p \in Payloads :
          /\ PipelineFault(rev, p) = ""
          /\ ret'[r].val = Value(PipelineValue(rev, addInfoData[r], p))
    /\ srvCache'.present
    /\ srvCache'.val = ret'[r].val
    /\ srvCache'.storedAt = now
    /\ Visible(srvCache', now) = ret'[r].val

\* a call that found an entry younger than the ttl fetched nothing and
\* returned that entry's value; one that found the entry expired fetched
C5_HitsAndMisses ==
    \A r \in Req :
        /\ (InCall(r) /\ seen[r].entry = "fresh") =>
              pc[r] = "done" /\ fetches[r] = 0 /\ ret[r] = Returned(seen[r].val)
        /\ (InCall(r) /\ seen[r].entry = "expired") =>
              /\ fetches[r] >= 1
              /\ pc[r] = "done" => fetches[r] = 2 /\ ret[r].kind = "value"

\* C5: a call made while an entry younger than the 30 s ttl exists fetches
\* nothing and returns the value of the call that populated the entry; the
\* first call after the entry has expired fetches, recomputes and stores a new
\* entry.
C5_CacheWithinTtl ==
    /\ []C5_HitsAndMisses
    /\ [][\A r \in Req : Completes(r) => StoresOwnPair(r)]_vars

\* one request is served from the entry that another, who found the earlier
\* entry expired, has just stored
C5_HitAndRefetchWitness ==
    \E r \in Req : \E q \in Req :
        /\ pc[r] = "done" /\ seen[r].entry = "fresh" /\ ret[r].val = srvCache.val
        /\ pc[q] = "done" /\ seen[q].entry = "expired" /\ ret[q].val = srvCache.val

FetchOrDecodeError == {"UpstreamFetchError", "DecodeError"}

\* C6 as stated: when a fetch or the decode fails, the error reaches the caller
\* and the slot is as it was before the run started, whatever the interleaving
\* of failing and succeeding runs.
C6_SlotAsBeforeTheRun ==
    \A r \in Req :
        (pc[r] = "failed" /\ ret[r].err \in FetchOrDecodeError) =>
            ret[r].kind = "error" /\ endSlot[r] = "same"

\* C6, amended: when a fetch or the decode fails, the error reaches the caller
\* and the run has written nothing: of the steps of a call only a completing
\* one changes what the slot reads, so the slot differs from what it was when a
\* failing run started only by the writes of runs that completed meanwhile.
C6_FailingRunWritesNothing ==
    /\ [](\A r \in Req : pc[r] = "failed" => ret[r].kind = "error" /\ ret[r].err # "")
    /\ [][\A r \in Req :
            /\ (pc[r] \in {"fetch1", "fetch2"} /\ pc'[r] = "failed"
                    /\ ret'[r].err \in FetchOrDecodeError) => srvCache' = srvCache
            /\ (pc'[r] # pc[r] /\ ~Completes(r)) =>
                    Visible(srvCache', now') = Visible(srvCache, now)]_vars

\* a run fails on the decode while the slot holds the entry of another run
\* that completed after the failing one had started
C6_FailsBesideEntryWitness ==
    \E r \in Req :
        /\ pc[r] = "failed" /\ ret[r].err = "DecodeError"
        /\ endSlot[r] = "changed" /\ srvCache.present

\* C7: an alert that lacks a field a rule depends on (url, header,
\* description, speechText) has that rule skipped and no more: a run whose
\* fetches and decode succeed returns {all, normal}.
C7_MissingFieldSkipsOneRule ==
    \A r \in Req : pc[r] = "failed" => ret[r].err \in FetchOrDecodeError

\* the locals of request r
Locals(r) == <<pc[r], addInfoData[r], ret[r], fetches[r]>>

\* C10: no single flight.  Every request that found the slot empty or expired
\* issues its own fetches and is never held back by another request; every
\* run that completes overwrites the slot with its own pair; a step of one
\* request changes no local of another.
C10_NoSingleFlight ==
    /\ [](\A r \in Req :
            /\ SawMiss(r) => pc[r] \in {"fetch1", "fetch2", "done", "failed"}
            /\ SawMiss(r) => fetches[r] = (IF pc[r] = "fetch1" THEN 1
                                          ELSE IF pc[r] = "failed" THEN fetches[r]
                                          ELSE 2)
            /\ SawMiss(r) => fetches[r] \in {1, 2}
            /\ pc[r] = "fetch1" => ENABLED Fetch1Ok(r)
            /\ pc[r] = "fetch2" => ENABLED Fetch2Ok(r))
    /\ [][\A r \in Req :
            /\ Completes(r) => StoresOwnPair(r)
            /\ \A q \in Req \ {r} : pc'[r] # pc[r] => Locals(q)' = Locals(q)]_vars

\* every request found the same empty slot and is fetching at the same time
C10_AllFetchingWitness ==
    \A r \in Req : pc[r] = "fetch2" /\ seen[r].entry = "none" /\ fetches[r] = 2

====
